---- MODULE Spec2Model ----
(***************************************************************************)
(* A model of the three thin clients of mini-swe-agent:                    *)
(*   - LitellmModel.query / LitellmModel._query  (models/litellm_model.py) *)
(*   - context_retrieval_tool                    (tools/context_retrieval) *)
(*   - upload_repository / delete_repository     (utils/repository.py)     *)
(* The completion provider and the CRA REST backend are the environment:   *)
(* every outcome they can produce is a nondeterministic choice.            *)
(***************************************************************************)
EXTENDS Integers, Sequences, FiniteSets, TLC

VARIABLES
    \* ---- LitellmModel ----
    config,              \* per instance: [cost_tracking, set_cache_control]
    ceiling,             \* int(os.getenv("MSWEA_MODEL_RETRY_STOP_AFTER_ATTEMPT", "10"))
    n_calls,             \* per instance: self.n_calls
    cost,                \* per instance: self.cost
    GLOBAL_MODEL_STATS,  \* the process-wide accumulated cost
    pc,                  \* "idle" | "calling" (inside _query) | "costing" (after _query)
    cur,                 \* the instance whose query is in flight (or ran last)
    messages,            \* the argument of the query in flight (or of the last one)
    filtered_messages,   \* what query hands to _query, hence to litellm.completion
    attempt_number,      \* calls of litellm.completion made by this query
    response,            \* what litellm.completion returned to this query
    result,              \* how the last query ended
    remaining,           \* queries the caller may still start
    attempts,            \* history: the outcome of each litellm.completion call of this query
    pre,                 \* history: n_calls, cost, GLOBAL_MODEL_STATS when the query began
    log,                 \* history: per instance, the cost charged by each returned query
    \* ---- CRA clients ----
    environ,             \* os.environ, the two CRA settings
    environ0,            \* history: os.environ when the modules were imported
    http,                \* the HTTP requests issued so far, in order
    cpc,                 \* "idle" | "waiting" (a request is on the wire)
    op,                  \* the CRA operation running (or that ran last)
    endpoint,            \* the URL the running operation built
    reply,               \* what the remote answered to the last request
    cresult,             \* how the last CRA operation ended
    calls                \* CRA operations the caller may still start

qvars == <<config, ceiling, n_calls, cost, GLOBAL_MODEL_STATS, pc, cur, messages,
           filtered_messages, attempt_number, response, result, remaining, attempts,
           pre, log>>
cvars == <<environ, environ0, http, cpc, op, endpoint, reply, cresult, calls>>
vars == <<qvars, cvars>>

(***************************************************************************)
(* Bounds of the model.                                                    *)
(***************************************************************************)
MaxCeiling == 3     \* the attempt ceilings explored: 0..MaxCeiling
MaxQueries == 3     \* queries started per behaviour
MaxCost == 2        \* the provider's per-call costs explored: -1..MaxCost
MaxMsgs == 2        \* length of the message lists explored
MaxCalls == 2       \* CRA operations started per behaviour

Instances == {1, 2}

(***************************************************************************)
(* Messages: a message is a function from the keys it has to their values. *)
(***************************************************************************)
ToolKeys == {"tool_calls", "tool_call_id", "name"}
OptionalKeys == {"content", "timestamp"} \cup ToolKeys

ValueOf(k) ==
    CASE k = "role" -> "user"
      [] k = "content" -> "hi"
      [] k = "tool_calls" -> "[call_1]"
      [] k = "tool_call_id" -> "call_1"
      [] k = "name" -> "bash"
      [] OTHER -> "12:00"

Msg(keys) == [k \in keys |-> ValueOf(k)]

\* Every message with a role, and one message without (a malformed input).
MessageUniverse ==
    {Msg(ks \cup {"role"}) : ks \in SUBSET OptionalKeys} \cup {Msg({"content"})}

MessageLists == UNION {[1..n -> MessageUniverse] : n \in 0..MaxMsgs}

\* What the caller passes in the accounting specification.
CallerMessages ==
    {<<Msg({"role", "content", "timestamp"}), Msg({"role", "tool_call_id", "name"})>>}

(***************************************************************************)
(* set_cache_control(messages, mode="default_end"): marks the content of   *)
(* the last applicable message, here message j (0: no message applies).    *)
(***************************************************************************)
set_cache_control(msgs, j) ==
    [n \in 1..Len(msgs) |->
        IF n = j
        THEN [msgs[n] EXCEPT !["content"] = @ \o "+cache_control"]
        ELSE msgs[n]]

Applicable(msgs) == {0} \cup {j \in 1..Len(msgs) : "content" \in DOMAIN msgs[j]}

(***************************************************************************)
(* query, lines 72-83: the projection of one message.                      *)
(***************************************************************************)
filtered_msg_leaky(msg) == msg

filtered_msg(msg) ==
    [k \in {"role", "content"} \cup (DOMAIN msg \cap ToolKeys) |->
        IF k = "content"
        THEN (IF "content" \in DOMAIN msg THEN msg["content"] ELSE "")
        ELSE msg[k]]

Filter(msgs) == [n \in 1..Len(msgs) |-> filtered_msg(msgs[n])]

\* msg["role"] raises KeyError on a message without a role.
HasRoles(msgs) == \A n \in 1..Len(msgs) : "role" \in DOMAIN msgs[n]

(***************************************************************************)
(* Exceptions.                                                             *)
(***************************************************************************)
NonRetryable ==
    {"UnsupportedParamsError", "NotFoundError", "PermissionDeniedError",
     "ContextWindowExceededError", "APIError", "AuthenticationError",
     "KeyboardInterrupt"}
Retryable == {"RateLimitError", "Timeout"}
ProviderErrors == NonRetryable \cup Retryable

Exc(type, cause, augmented) == [type |-> type, cause |-> cause, augmented |-> augmented]
NoExc == Exc("", "", FALSE)

\* _query, lines 60-66: the provider's error as _query raises it.
RaisedBy_query(e) == Exc(e, "", e = "AuthenticationError")

\* retry=retry_if_not_exception_type((...)), lines 47-57.
retry_if_not_exception_type_mut(e) == e \notin (NonRetryable \ {"KeyboardInterrupt"})

retry_if_not_exception_type(e) == e \notin NonRetryable

\* stop=stop_after_attempt(ceiling), line 44: tenacity stops once
\* attempt_number >= max_attempt_number.
stop_after_attempt(n) == n >= ceiling

\* tenacity's Retrying with the default reraise=False (lines 43-58 pass no
\* reraise): a failure that is not retried is re-raised as it is; when the stop
\* condition holds, RetryError is raised from the last attempt's exception.
RetryExhausted(e) == Exc("RetryError", e, FALSE)

(***************************************************************************)
(* The provider's responses. completion_cost(response) is response.cost,   *)
(* or raises when cost_raises.                                             *)
(***************************************************************************)
Resp(c, raises, content, tools) ==
    [cost |-> c, cost_raises |-> raises, content |-> content, tool_calls |-> tools]
NoResponse == Resp(0, FALSE, "None", <<>>)

CostValues == -1..MaxCost

\* The accounting specification: every cost, one shape of message.
AccountingResponses ==
    {Resp(c, FALSE, "text", <<>>) : c \in CostValues} \cup {Resp(0, TRUE, "text", <<>>)}

\* The payload specification: every shape of input, two responses.
PayloadResponses ==
    {Resp(1, FALSE, "text", <<>>), Resp(0, FALSE, "None", <<"call_1">>)}

(***************************************************************************)
(* query, lines 86-91: the cost charged, and whether its calculation       *)
(* failed.                                                                 *)
(***************************************************************************)
CostFailed_mut(r) == r.cost_raises \/ r.cost < 0

CostFailed(r) == r.cost_raises \/ r.cost <= 0

Charged_mut(r) == IF r.cost_raises THEN 0 ELSE r.cost

Charged(r) == IF CostFailed(r) THEN 0 ELSE r.cost

\* line 92: the failure is fatal unless cost_tracking is "ignore_errors".
Fatal(i, r) == CostFailed(r) /\ config[i].cost_tracking # "ignore_errors"

\* lines 108-130: the result built from a response.
Value(r) ==
    [content |-> IF r.content = "None" THEN "" ELSE r.content,
     tool_calls |-> r.tool_calls,
     response |-> r]
NoValue == [content |-> "", tool_calls |-> <<>>, response |-> NoResponse]

Returned(r) == [kind |-> "returned", exc |-> NoExc, value |-> Value(r)]
Raised(e) == [kind |-> "raised", exc |-> e, value |-> NoValue]
NoResult == [kind |-> "none", exc |-> NoExc, value |-> NoValue]

RECURSIVE Sum(_)
Sum(s) == IF s = <<>> THEN 0 ELSE s[1] + Sum(Tail(s))

\* GLOBAL_MODEL_STATS.add(cost): the process-wide accumulator.
add(total, c) == total + c

\* lines 103-105 run only when line 102 did not raise.
n_calls_next_mut(i, r) == [n_calls EXCEPT ![i] = @ + 1]

n_calls_next(i, r) == IF Fatal(i, r) THEN n_calls ELSE [n_calls EXCEPT ![i] = @ + 1]

cost_next(i, r) == IF Fatal(i, r) THEN cost ELSE [cost EXCEPT ![i] = @ + Charged(r)]

stats_next(i, r) ==
    IF Fatal(i, r) THEN GLOBAL_MODEL_STATS ELSE add(GLOBAL_MODEL_STATS, Charged(r))

(***************************************************************************)
(* LitellmModel: the state after construction (lines 36-39).               *)
(***************************************************************************)
Configs ==
    [cost_tracking : {"default", "ignore_errors"},
     set_cache_control : {"None", "default_end"}]

QueryIdle ==
    /\ n_calls = [i \in Instances |-> 0]
    /\ cost = [i \in Instances |-> 0]
    /\ GLOBAL_MODEL_STATS = 0
    /\ pc = "idle"
    /\ cur = 1
    /\ messages = <<>>
    /\ filtered_messages = <<>>
    /\ attempt_number = 0
    /\ response = NoResponse
    /\ result = NoResult
    /\ attempts = <<>>
    /\ pre = [n_calls |-> n_calls, cost |-> cost, stats |-> 0]
    /\ log = [i \in Instances |-> <<>>]

(***************************************************************************)
(* query, lines 68-85: annotate, project, and enter _query.                *)
(***************************************************************************)
QueryStart(i, msgs) ==
    /\ pc = "idle"
    /\ remaining > 0
    /\ remaining' = remaining - 1
    /\ cur' = i
    /\ messages' = msgs
    /\ pre' = [n_calls |-> n_calls, cost |-> cost, stats |-> GLOBAL_MODEL_STATS]
    /\ attempt_number' = 0
    /\ attempts' = <<>>
    /\ response' = NoResponse
    /\ \E j \in (IF config[i].set_cache_control = "None" THEN {0} ELSE Applicable(msgs)) :
          LET annotated == set_cache_control(msgs, j) IN
          IF HasRoles(annotated)
          THEN /\ filtered_messages' = Filter(annotated)
               /\ pc' = "calling"
               /\ result' = NoResult
          ELSE /\ filtered_messages' = <<>>
               /\ pc' = "idle"
               /\ result' = Raised(Exc("KeyError", "", FALSE))
    /\ UNCHANGED <<config, ceiling, n_calls, cost, GLOBAL_MODEL_STATS, log>>

(***************************************************************************)
(* _query, lines 43-66: one attempt under tenacity's retry loop.           *)
(***************************************************************************)
CompletionReturns(r) ==
    /\ pc = "calling"
    /\ attempt_number' = attempt_number + 1
    /\ attempts' = Append(attempts, "ok")
    /\ response' = r
    /\ pc' = "costing"
    /\ UNCHANGED <<config, ceiling, n_calls, cost, GLOBAL_MODEL_STATS, cur, messages,
                   filtered_messages, result, remaining, pre, log>>

CompletionRaises(e) ==
    /\ pc = "calling"
    /\ attempt_number' = attempt_number + 1
    /\ attempts' = Append(attempts, e)
    /\ IF ~retry_if_not_exception_type(e)
       THEN /\ pc' = "idle"
            /\ result' = Raised(RaisedBy_query(e))
       ELSE IF stop_after_attempt(attempt_number + 1)
       THEN /\ pc' = "idle"
            /\ result' = Raised(RetryExhausted(e))
       ELSE /\ pc' = "calling"
            /\ result' = result
    /\ UNCHANGED <<config, ceiling, n_calls, cost, GLOBAL_MODEL_STATS, cur, messages,
                   filtered_messages, response, remaining, pre, log>>

(***************************************************************************)
(* query, lines 86-130: cost, accounting, and the result.                  *)
(***************************************************************************)
QueryFinish ==
    /\ pc = "costing"
    /\ pc' = "idle"
    /\ n_calls' = n_calls_next(cur, response)
    /\ cost' = cost_next(cur, response)
    /\ GLOBAL_MODEL_STATS' = stats_next(cur, response)
    /\ IF Fatal(cur, response)
       THEN /\ result' = Raised(Exc("RuntimeError", "CostCalculation", FALSE))
            /\ log' = log
       ELSE /\ result' = Returned(response)
            /\ log' = [log EXCEPT ![cur] =
                          Append(@, IF response.cost_raises \/ response.cost <= 0
                                    THEN 0 ELSE response.cost)]
    /\ UNCHANGED <<config, ceiling, cur, messages, filtered_messages, attempt_number,
                   response, remaining, attempts, pre>>

(***************************************************************************)
(* The CRA clients. os.environ.get(k) is "unset" for a variable not set.   *)
(***************************************************************************)
BaseValues == {"unset", "", "http://cra"}
RepoValues == {"unset", "", "7", "x"}
Environs == {[CRA_BASE_URL |-> b, CRA_REPOSITORY_ID |-> r] : b \in BaseValues, r \in RepoValues}

Ops == {"context_retrieval_tool", "upload_repository", "delete_repository"}

\* `if not value`: None and the empty string are both falsy.
Missing(v) == v \in {"unset", ""}

\* os.environ.get("CRA_BASE_URL"), read inside the call
\* (context_retrieval.py line 15, repository.py line 15).
CRA_BASE_URL_cached == environ0.CRA_BASE_URL

CRA_BASE_URL == environ.CRA_BASE_URL

DomainError(o) ==
    IF o = "context_retrieval_tool" THEN "ContextRetrievalError" ELSE "RepositoryError"

Path(o) ==
    CASE o = "context_retrieval_tool" -> "/context/retrieve"
      [] o = "upload_repository" -> "/repository/upload/"
      [] OTHER -> "/repository/delete/"

Method(o) == IF o = "delete_repository" THEN "DELETE" ELSE "POST"

\* JSON values: an object is the set of its keys (and its "data" member).
J(kind, keys, data) == [kind |-> kind, keys |-> keys, data |-> data]
NoJson == J("none", {}, {})
DataObjects == {{"repository_id", "status"}, {"status"}, {"contexts", "total_contexts"}}
Bodies ==
    {J("text", {}, {}), J("array", {}, {})}
    \cup {J("object", ks, {}) : ks \in SUBSET {"error", "detail"}}
    \cup {J("object", ks \cup {"data"}, d) : ks \in SUBSET {"error", "detail"}, d \in DataObjects}

Statuses == {"200", "404", "500"}
Http(status, body) == [kind |-> "response", status |-> status, body |-> body]
Transport(e) == [kind |-> e, status |-> "", body |-> NoJson]
NoReply == [kind |-> "none", status |-> "", body |-> NoJson]
Replies ==
    {Http(st, b) : st \in Statuses, b \in Bodies}
    \cup {Transport("ConnectionError"), Transport("RequestException")}

\* What the remote put in the body, as the message shows it.
ErrorText == "error: no such repository"
DetailText == "detail: not found"
RawText == "<html>Bad Gateway</html>"

CR(kind, exc, names, status, remote, value) ==
    [kind |-> kind, exc |-> exc, names |-> names, status |-> status, remote |-> remote,
     value |-> value]
NoCResult == CR("none", "", {}, "", "", NoJson)
CRaise(exc, names, status, remote) == CR("raised", exc, names, status, remote, NoJson)
CReturn(value) == CR("returned", "", {}, "", "", value)

\* response.raise_for_status(): HTTPError for 4xx and 5xx.
IsError(status) == status \in {"404", "500"}

\* bool(response) is response.ok: False for a 4xx or 5xx response.
Truthy(r) == ~IsError(r.status)

\* repository.py lines 82-91 / 157-166: the message of a non-2xx response.
RemoteMessage(b) ==
    CASE b.kind = "text" -> RawText
      [] b.kind = "object" /\ "error" \in b.keys -> ErrorText
      [] b.kind = "object" /\ "detail" \in b.keys -> DetailText
      [] OTHER -> ""

\* context_retrieval.py lines 90-99.
RetrievalHttpError(r) ==
    CRaise("ContextRetrievalError", {},
           IF Truthy(r) THEN r.status ELSE "unknown",
           IF ~Truthy(r) THEN ""
           ELSE CASE r.body.kind = "text" -> RawText
                  [] r.body.kind = "object" /\ "error" \in r.body.keys -> ErrorText
                  [] OTHER -> "")

\* repository.py lines 70-76: the 'data' envelope and its repository_id.
upload_data_unchecked(b) == CReturn(J("object", b.data, {}))

upload_data(b) ==
    IF "repository_id" \notin b.data
    THEN CRaise("RepositoryError", {"repository_id"}, "", "")
    ELSE CReturn(J("object", b.data, {}))

\* The body of a response that raise_for_status let through. response.json()
\* raises requests' JSONDecodeError on a body that is not JSON: a
\* RequestException (and a ValueError), so the RequestException clause takes it.
Parsed(o, b) ==
    CASE b.kind = "text" -> CRaise(DomainError(o), {}, "", "")
      [] o = "delete_repository" -> CReturn(b)
      [] b.kind = "array" -> CRaise("TypeError", {}, "", "")
      [] "data" \notin b.keys -> CRaise("KeyError", {"data"}, "", "")
      [] o = "upload_repository" -> upload_data(b)
      [] OTHER -> CReturn(J("object", b.data, {}))

\* The whole try statement, given what the remote answered.
Outcome(o, r) ==
    CASE r.kind \in {"ConnectionError", "RequestException"} -> CRaise(DomainError(o), {}, "", "")
      [] IsError(r.status) ->
            IF o = "context_retrieval_tool"
            THEN RetrievalHttpError(r)
            ELSE CRaise("RepositoryError", {}, r.status, RemoteMessage(r.body))
      [] OTHER -> Parsed(o, r.body)

CRAIdle ==
    /\ http = <<>>
    /\ cpc = "idle"
    /\ op = "none"
    /\ endpoint = ""
    /\ reply = NoReply
    /\ cresult = NoCResult

\* The caller (or the user's shell) changes the settings between two calls.
SetEnv(e) ==
    /\ cpc = "idle"
    /\ e # environ
    /\ environ' = e
    /\ UNCHANGED <<environ0, http, cpc, op, endpoint, reply, cresult, calls>>

\* The operation up to its request: context_retrieval.py lines 53-77,
\* repository.py lines 46-64 and 125-143.
CRACall(o) ==
    /\ cpc = "idle"
    /\ calls > 0
    /\ calls' = calls - 1
    /\ op' = o
    /\ reply' = NoReply
    /\ IF Missing(CRA_BASE_URL)
       THEN /\ cresult' = CRaise(DomainError(o), {"CRA_BASE_URL"}, "", "")
            /\ UNCHANGED <<http, cpc, endpoint>>
       ELSE IF o = "context_retrieval_tool" /\ Missing(environ.CRA_REPOSITORY_ID)
       THEN /\ cresult' = CRaise("ContextRetrievalError", {"CRA_REPOSITORY_ID"}, "", "")
            /\ UNCHANGED <<http, cpc, endpoint>>
       ELSE IF o = "context_retrieval_tool" /\ environ.CRA_REPOSITORY_ID = "x"
       THEN \* int(repository_id) raises ValueError, outside the try statement
            /\ cresult' = CRaise("ValueError", {}, "", "")
            /\ UNCHANGED <<http, cpc, endpoint>>
       ELSE /\ endpoint' = CRA_BASE_URL \o Path(o)
            /\ http' = Append(http, [method |-> Method(o), url |-> endpoint'])
            /\ cpc' = "waiting"
            /\ cresult' = NoCResult
    /\ UNCHANGED <<environ, environ0>>

\* The remote's answer and the rest of the operation.
CRAReply(r) ==
    /\ cpc = "waiting"
    /\ cpc' = "idle"
    /\ reply' = r
    /\ cresult' = Outcome(op, r)
    /\ UNCHANGED <<environ, environ0, http, op, endpoint, calls>>

(***************************************************************************)
(* The accounting specification: two clients, every cost, every error.     *)
(***************************************************************************)
Init ==
    /\ config \in [Instances -> {c \in Configs : c.set_cache_control = "None"}]
    /\ ceiling \in 0..MaxCeiling
    /\ remaining = MaxQueries
    /\ QueryIdle
    /\ environ = [CRA_BASE_URL |-> "unset", CRA_REPOSITORY_ID |-> "unset"]
    /\ environ0 = environ
    /\ calls = 0
    /\ CRAIdle

Next ==
    \/ \E i \in Instances, msgs \in CallerMessages : QueryStart(i, msgs) /\ UNCHANGED cvars
    \/ \E r \in AccountingResponses : CompletionReturns(r) /\ UNCHANGED cvars
    \/ \E e \in ProviderErrors : CompletionRaises(e) /\ UNCHANGED cvars
    \/ QueryFinish /\ UNCHANGED cvars

Spec == Init /\ [][Next]_vars

(***************************************************************************)
(* The payload specification: one query, every message list.               *)
(***************************************************************************)
InitPayload ==
    /\ config \in {[i \in Instances |-> c] : c \in Configs}
    /\ ceiling = 2
    /\ remaining = 1
    /\ QueryIdle
    /\ environ = [CRA_BASE_URL |-> "unset", CRA_REPOSITORY_ID |-> "unset"]
    /\ environ0 = environ
    /\ calls = 0
    /\ CRAIdle

NextPayload ==
    \/ /\ pc = "idle" /\ remaining > 0
       /\ \E msgs \in MessageLists : QueryStart(1, msgs) /\ UNCHANGED cvars
    \/ \E r \in PayloadResponses : CompletionReturns(r) /\ UNCHANGED cvars
    \/ \E e \in {"RateLimitError", "APIError"} : CompletionRaises(e) /\ UNCHANGED cvars
    \/ QueryFinish /\ UNCHANGED cvars

SpecPayload == InitPayload /\ [][NextPayload]_vars

(***************************************************************************)
(* The CRA specification: the three operations, every answer of the remote.*)
(***************************************************************************)
InitCRA ==
    /\ config = [i \in Instances |-> [cost_tracking |-> "default", set_cache_control |-> "None"]]
    /\ ceiling = 1
    /\ remaining = 0
    /\ QueryIdle
    /\ environ \in Environs
    /\ environ0 = environ
    /\ calls = MaxCalls
    /\ CRAIdle

NextCRA ==
    \/ \E e \in Environs : SetEnv(e) /\ UNCHANGED qvars
    \/ \E o \in Ops : CRACall(o) /\ UNCHANGED qvars
    \/ \E r \in Replies : CRAReply(r) /\ UNCHANGED qvars

SpecCRA == InitCRA /\ [][NextCRA]_vars

(***************************************************************************)
(* Properties of LitellmModel.query.                                       *)
(***************************************************************************)
\* The query that ran last has ended, and it got as far as the provider.
Ended == pc = "idle" /\ attempts # <<>>

Succeeded == attempts # <<>> /\ attempts[Len(attempts)] = "ok"

AllRetryable(n) == \A m \in 1..n : attempts[m] \in Retryable

\* The retry loop of C1: a success or a non-retryable error is the last call
\* the query makes, a non-retryable error is raised as it is, and no query
\* gives up on a retryable error before the ceiling.
C1_Attempts ==
    \A n \in 1..Len(attempts) :
        /\ attempts[n] = "ok" => n = Len(attempts) /\ pc # "calling"
        /\ attempts[n] \in NonRetryable =>
              /\ n = Len(attempts)
              /\ pc = "idle"
              /\ result.kind = "raised"
              /\ result.exc.type = attempts[n]
              /\ result.exc.cause = ""
        /\ attempts[n] \in Retryable /\ n < ceiling => n < Len(attempts) \/ pc = "calling"

\* C1 as stated: for a query with attempt ceiling C, if the provider fails with a
\* retryable error on each of the first k-1 attempts and succeeds on attempt k
\* (1 <= k <= C), query returns the result built from that success and the
\* provider is called exactly k times; if the provider fails with a
\* non-retryable error, the provider is not called again and that error
\* reaches the caller.
C1_Original ==
    /\ C1_Attempts
    /\ Ended /\ Succeeded /\ Len(attempts) <= ceiling => result = Returned(response)

\* C1 (amended): as C1_Original, except that a success whose cost calculation
\* fails (cost <= 0, or completion_cost raises) under a cost_tracking other
\* than "ignore_errors" ends the query with RuntimeError instead of a result.
C1_RetryUntilSuccess ==
    /\ C1_Attempts
    /\ Ended /\ Succeeded /\ Len(attempts) <= ceiling =>
          IF (response.cost_raises \/ response.cost <= 0)
             /\ config[cur].cost_tracking # "ignore_errors"
          THEN result.kind = "raised" /\ result.exc.type = "RuntimeError"
          ELSE result = Returned(response)

\* A query that succeeded on its third attempt and returned.
C1_Witness ==
    /\ Ended
    /\ attempts = <<"RateLimitError", "Timeout", "ok">>
    /\ result.kind = "returned"
    /\ result.value.response.cost = MaxCost

\* C2: when every attempt fails with a retryable error, the provider is called
\* exactly C times and the caller receives the provider error raised by the
\* last attempt, not a different or wrapping error.
C2_ExhaustionRaisesLastError ==
    Ended /\ ceiling >= 1 /\ AllRetryable(Len(attempts)) =>
        /\ Len(attempts) = ceiling
        /\ result = Raised(RaisedBy_query(attempts[Len(attempts)]))

\* C3: after N returned queries on an instance, n_calls = N and cost is the sum
\* of the per-call costs; the process-wide accumulator is the sum of the
\* instances' costs.
C3_Accounting ==
    /\ \A i \in Instances : n_calls[i] = Len(log[i]) /\ cost[i] = Sum(log[i])
    /\ GLOBAL_MODEL_STATS = cost[1] + cost[2]

\* Both instances have returned queries, one of them more than one.
C3_Witness ==
    /\ pc = "idle"
    /\ n_calls[1] = 2
    /\ n_calls[2] = 1
    /\ cost[1] = MaxCost + 1
    /\ cost[2] > 0

\* C4: a response whose cost is <= 0 (or whose cost calculation raises) makes
\* a query in mode "default" fail, and a query in mode "ignore_errors" return
\* normally with zero added to the instance's cost and to the accumulator; the
\* cost is never negative and no step makes it smaller.
C4_State ==
    /\ \A i \in Instances : cost[i] >= 0
    /\ Ended /\ Succeeded /\ (response.cost_raises \/ response.cost <= 0) =>
          IF config[cur].cost_tracking = "ignore_errors"
          THEN /\ result = Returned(response)
               /\ cost = pre.cost
               /\ GLOBAL_MODEL_STATS = pre.stats
          ELSE /\ result.kind = "raised"
               /\ result.exc.type = "RuntimeError"

C4_CostFailure ==
    /\ []C4_State
    /\ [][\A i \in Instances : cost'[i] >= cost[i]]_vars

\* A query in mode "ignore_errors" returned on a response of negative cost,
\* after an earlier query had made the cost positive.
C4_Witness ==
    /\ Ended
    /\ config[cur].cost_tracking = "ignore_errors"
    /\ response.cost < 0
    /\ result.kind = "returned"
    /\ cost[cur] > 0

\* C10: n_calls, cost and the accumulator change only in the step in which a
\* query returns; a query that raises leaves all three as they were when it
\* began, however many attempts it made.
C10_State ==
    result.kind # "returned" =>
        /\ n_calls = pre.n_calls
        /\ cost = pre.cost
        /\ GLOBAL_MODEL_STATS = pre.stats

C10_Frame ==
    /\ []C10_State
    /\ [][<<n_calls, cost, GLOBAL_MODEL_STATS>>' # <<n_calls, cost, GLOBAL_MODEL_STATS>> =>
             pc = "costing" /\ result'.kind = "returned"]_vars

\* A query raised on retry exhaustion after three attempts, on an instance that
\* an earlier query had charged.
C10_Witness ==
    /\ Ended
    /\ result.kind = "raised"
    /\ result.exc.type = "RetryError"
    /\ Len(attempts) = 3
    /\ n_calls[cur] >= 1
    /\ cost[cur] > 0

(***************************************************************************)
(* Properties of the payload query sends.                                  *)
(***************************************************************************)
\* The provider was called (or is about to be) with filtered_messages.
Sent == pc = "calling" \/ attempts # <<>>

InputContent(msg) == IF "content" \in DOMAIN msg THEN msg["content"] ELSE ""

\* Length, order, keys, and every value but that of 'content'.
C5_Shape ==
    /\ Len(filtered_messages) = Len(messages)
    /\ \A n \in 1..Len(messages) :
          /\ DOMAIN filtered_messages[n] =
                {"role", "content"} \cup (DOMAIN messages[n] \cap ToolKeys)
          /\ \A k \in DOMAIN filtered_messages[n] \ {"content"} :
                filtered_messages[n][k] = messages[n][k]

\* C5 as stated: the list sent to the provider has the length and order of the
\* input, and each sent message has exactly the keys role, content (the input's
\* content, or the empty string when the input has none) and each of
\* tool_calls, tool_call_id, name that the input message has, values unchanged.
C5_Original ==
    Sent =>
        /\ C5_Shape
        /\ \A n \in 1..Len(messages) :
              filtered_messages[n]["content"] = InputContent(messages[n])

\* C5 (amended): as C5_Original, except that with set_cache_control configured
\* the content sent for at most one message is the input's content carrying the
\* cache-control marker; without it every content is the input's.
C5_Projection ==
    Sent =>
        /\ C5_Shape
        /\ LET marked == {n \in 1..Len(messages) :
                             filtered_messages[n]["content"] # InputContent(messages[n])}
           IN /\ \A n \in marked :
                    /\ "content" \in DOMAIN messages[n]
                    /\ filtered_messages[n]["content"] =
                          messages[n]["content"] \o "+cache_control"
              /\ Cardinality(marked) <= 1
              /\ config[cur].set_cache_control = "None" => marked = {}

\* Two messages were sent: the first had no content and an unknown key, the
\* second had every tool key and got the cache-control marker.
C5_Witness ==
    /\ attempts # <<>>
    /\ Len(messages) = 2
    /\ DOMAIN messages[1] = {"role", "timestamp", "name"}
    /\ DOMAIN messages[2] = {"role", "content", "timestamp"} \cup ToolKeys
    /\ filtered_messages[1]["content"] = ""
    /\ filtered_messages[2]["content"] = "hi+cache_control"

(***************************************************************************)
(* Properties of the CRA clients.                                          *)
(***************************************************************************)
\* C6: when CRA_BASE_URL is unset or empty at call time, each operation raises
\* its domain error naming CRA_BASE_URL and issues no HTTP request; when it is
\* set but CRA_REPOSITORY_ID is unset or empty, context_retrieval_tool raises
\* ContextRetrievalError naming CRA_REPOSITORY_ID and issues no request. The
\* settings are those of the moment of the call.
C6_Step ==
    calls' = calls - 1 =>
        IF environ.CRA_BASE_URL \in {"unset", ""}
        THEN /\ cresult' = CRaise(DomainError(op'), {"CRA_BASE_URL"}, "", "")
             /\ http' = http
             /\ cpc' = "idle"
        ELSE IF op' = "context_retrieval_tool" /\ environ.CRA_REPOSITORY_ID \in {"unset", ""}
        THEN /\ cresult' = CRaise("ContextRetrievalError", {"CRA_REPOSITORY_ID"}, "", "")
             /\ http' = http
             /\ cpc' = "idle"
        ELSE environ.CRA_REPOSITORY_ID # "x" \/ op' # "context_retrieval_tool" =>
                /\ cpc' = "waiting"
                /\ http' = Append(http, [method |-> Method(op'),
                                         url |-> environ.CRA_BASE_URL \o Path(op')])

C6_FailFast == [][C6_Step]_vars

\* CRA_BASE_URL was set when the process started and a request went out; it
\* was emptied afterwards, and the next call failed without a request.
C6_Witness ==
    /\ environ0.CRA_BASE_URL = "http://cra"
    /\ environ.CRA_BASE_URL = ""
    /\ Len(http) = 1
    /\ calls = MaxCalls - 2
    /\ cresult.kind = "raised"
    /\ cresult.names = {"CRA_BASE_URL"}

\* C7: a 2xx upload response whose 'data' object has no 'repository_id' makes
\* upload_repository raise RepositoryError naming the field; whenever
\* upload_repository returns, it returns the response's 'data' object, which
\* has 'repository_id'.
C7_UploadValidated ==
    op = "upload_repository" /\ cpc = "idle" =>
        /\ /\ reply.kind = "response"
           /\ reply.status = "200"
           /\ reply.body.kind = "object"
           /\ "data" \in reply.body.keys
           /\ "repository_id" \notin reply.body.data
           => cresult = CRaise("RepositoryError", {"repository_id"}, "", "")
        /\ cresult.kind = "returned" =>
              /\ reply.kind = "response"
              /\ "data" \in reply.body.keys
              /\ cresult.value = J("object", reply.body.data, {})
              /\ "repository_id" \in cresult.value.keys

\* upload_repository got {"data": {"status": ...}} with status 200 and raised.
C7_Witness ==
    /\ op = "upload_repository"
    /\ cpc = "idle"
    /\ reply = Http("200", J("object", {"data"}, {"status"}))
    /\ cresult.kind = "raised"
    /\ cresult.names = {"repository_id"}

\* The remote's answer is a failure: a transport error, a non-2xx status, a
\* body that is not JSON, or JSON without the 'data' envelope or the
\* 'repository_id' the operation requires.
RemoteFailure ==
    \/ reply.kind \in {"ConnectionError", "RequestException"}
    \/ /\ reply.kind = "response"
       /\ \/ reply.status # "200"
          \/ reply.body.kind = "text"
          \/ /\ op # "delete_repository"
             /\ (reply.body.kind # "object" \/ "data" \notin reply.body.keys)
          \/ /\ op = "upload_repository"
             /\ "repository_id" \notin reply.body.data

\* C8: whatever the remote answers, context_retrieval_tool raises only
\* ContextRetrievalError and upload_repository / delete_repository raise only
\* RepositoryError, and no failure becomes a normal return value.
C8_OnlyDomainErrors ==
    cpc = "idle" /\ reply # NoReply =>
        /\ cresult.kind = "raised" => cresult.exc = DomainError(op)
        /\ RemoteFailure => cresult.kind = "raised"

\* C9: on a non-2xx status each operation raises its domain error with a
\* message holding the HTTP status code and the remote message: the JSON
\* body's 'error' field, else its 'detail' field, or the raw text of a body
\* that is not JSON.
C9_RemoteErrorMessage ==
    cpc = "idle" /\ reply.kind = "response" /\ reply.status # "200" =>
        /\ cresult.kind = "raised"
        /\ cresult.exc = DomainError(op)
        /\ cresult.status = reply.status
        /\ reply.body.kind = "text" => cresult.remote = RawText
        /\ reply.body.kind = "object" /\ "error" \in reply.body.keys =>
              cresult.remote = ErrorText
        /\ reply.body.kind = "object" /\ reply.body.keys \cap {"error", "detail"} = {"detail"} =>
              cresult.remote = DetailText

====
